---- MODULE Spec2Model ----
(***************************************************************************)
(* makeSnapshots of src/convert.ts: the backward sweep that rebuilds the   *)
(* line sequence of a page at every commit timestamp.                      *)
(*                                                                         *)
(* Line objects live in a heap (a sequence of records; a reference is an   *)
(* index into it), because the code shares Line objects between the        *)
(* working sequence and the snapshots and mutates some of them in place.   *)
(* Arrays are values: the code copies an array whenever it stores one      *)
(* ([...lines], [...currentLines], filter), so no two arrays are aliased.  *)
(*                                                                         *)
(* The viewer's callback (src/convert_test.ts, lines 368-380) derives from *)
(* the returned map the range of timestamps and the getSnapshot lookup.    *)
(*                                                                         *)
(* Three more parts of the program have a specification of their own, over *)
(* variables of their own: the useAsync hook with the viewer's controller  *)
(* and slider (ViewerSpec, and ViewerLiveSpec for its liveness), the       *)
(* viewer's load callback (LoadSpec), and convert with the commit-history  *)
(* lookup (ConvertSpec). Each specification keeps the variables of the     *)
(* other parts at rest.                                                    *)
(***************************************************************************)
EXTENDS Integers, Sequences, FiniteSets, TLC

VARIABLES
  given,         \* the Line records the caller passed, as they were at the call
  lines,         \* the caller's array: references to the caller's Line objects
  commits,       \* the commit log passed by the caller, in list order
  heap,          \* every Line object that exists, by reference
  origin,        \* per object, who created it: "caller", "update" or "delete"
  restored,      \* the objects whose text was assigned in place (lines 42, 70)
  currentLines,  \* the working sequence (references)
  snapshots,     \* the Map under construction: timestamp -> array of references
  atEmit,        \* the objects and the working sequence as they were when the
                 \* snapshot of the commit being handled was stored
  ci,            \* position of the outer loop: index of the commit being handled
  chi,           \* position in that commit: 0 before its snapshot is stored,
                 \* k >= 1 when its k-th change is the next one to undo
  pc,            \* "start", "loop", "done" (makeSnapshots has returned) or
                 \* "view" (the viewer holds the range and getSnapshot)
  range,         \* the viewer's range: the timestamps it can show
  shown,         \* the last getSnapshot call: its argument and what it returned
  emitted,       \* per commit of the log handled so far, the array that was
                 \* stored for it at line 26
  \* useAsync (src/useAsync.ts) and the viewer's slider
  closed,        \* the viewer's closed flag, the dependency of the callback
  state,         \* the hook's state: "uninitialized", "pending" or "resolved"
  result,        \* the hook's result: ok or not, and the value
  runs,          \* the invocations of the callback started so far
  max,           \* the slider's maximum
  index,         \* the slider's position
  effectDue,     \* a render with a new result has not run its effect yet
  called,        \* the last call of the controller, and the closed flag it met
  \* the viewer's load callback (src/convert_test.ts, lines 344-381)
  layout,        \* scrapbox.Layout
  load,          \* per invocation, how far its callback has come
  \* convert (src/unnamed/part_002) and getSnapshot of src/App.tsx
  convCommits,   \* the commits passed to convert
  changes,       \* the change infos convert has extracted
  convRange,     \* the range convert returns
  history,       \* the line histories built so far
  recorded,      \* per line history, the change infos written into it,
                 \* in the order convert handled them
  pos,           \* the index of the next change info to reduce
  convPc,        \* "idle", "call", "reduce" or "returned"
  got            \* the last getSnapshot call of the commit-history viewer

view == <<range, shown>>

\* The variables of makeSnapshots and of the lookup made from its result.
sweepVars == <<given, lines, commits, heap, origin, restored, currentLines,
               snapshots, atEmit, ci, chi, pc, range, shown, emitted>>

viewerVars == <<closed, state, result, runs, max, index, effectDue, called>>

loadVars == <<layout, load>>

convertVars == <<convCommits, changes, convRange, history, recorded, pos,
                 convPc, got>>

others == <<viewerVars, convertVars, loadVars>>

vars == <<sweepVars, viewerVars, convertVars, loadVars>>

(***************************************************************************)
(* Bounds of the input space.                                              *)
(***************************************************************************)
MaxLines == 2      \* the caller passes at most this many lines
MaxCommits == 3    \* the log holds at most this many commits
MaxChanges == 2    \* a commit holds at most this many changes
MaxOps == 3        \* a log holds at most this many changes in all

Ids == {"L1", "L2"}
Dummy == "-1"                         \* the dummy text of a restored line
Texts == {"Mid", "Final", Dummy}
NoText == ""                          \* a field the change does not carry
DummyUser == "-1"
DummyTime == -1
Undefined == 0                        \* commit.created of a commit without one

(***************************************************************************)
(* The input space: the records the caller can pass.                       *)
(***************************************************************************)
Ins(x, t) == [type |-> "insert", id |-> x, text |-> t, origText |-> NoText]
Upd(x, t, o) == [type |-> "update", id |-> x, text |-> t, origText |-> o]
Del(x) == [type |-> "delete", id |-> x, text |-> NoText, origText |-> NoText]

\* A line of the current page, created before the first commit of the log
\* and last written by the newest one.
CallerLine(x, t) ==
  [id |-> x, text |-> t, userId |-> "u0", created |-> 500, updated |-> 3000]

\* The current pages of the bounded input: at most MaxLines lines with
\* pairwise distinct ids. L1 carries a real text or a text equal to the
\* dummy string, L2 a real text.
CallerLines ==
  {CallerLine("L1", "Final"), CallerLine("L1", Dummy), CallerLine("L2", "Mid")}

SeqsUpTo(S, n) == UNION {[1..k -> S] : k \in 0..n}

InputLines ==
  {ls \in SeqsUpTo(CallerLines, MaxLines) :
     \A i, j \in 1..Len(ls) : ls[i].id = ls[j].id => i = j}

\* The changes of the bounded logs. L1 is inserted, updated (from a real
\* previous text and from one equal to the dummy string) and deleted; L2 is
\* inserted and deleted.
Changes ==
  {Ins("L1", "Mid"), Upd("L1", "Final", "Mid"), Upd("L1", "Mid", Dummy),
   Del("L1"), Ins("L2", "Final"), Del("L2")}

ChangeLists == SeqsUpTo(Changes, MaxChanges)

\* The timestamps of the bounded logs, and the author of the commit made at
\* each of them.
Times == {1000, 2000, 3000}

UserOf(t) == IF t = 3000 THEN "u3" ELSE IF t = 2000 THEN "u2" ELSE "u1"

Commit(t, chs) == [created |-> t, userId |-> UserOf(t), changes |-> chs]

\* The change lists of at most b changes.
ChangeListsUpTo(b) == {c \in ChangeLists : Len(c) <= b}

\* A log in the order the function documents, newest first: the k-th of its
\* n commits is made at 1000 * (n - k + 1).
SortedLog(cls) ==
  [k \in 1..Len(cls) |-> Commit(1000 * (Len(cls) - k + 1), cls[k])]

\* Logs in any order and with repeated timestamps, each commit holding at
\* most one change of L1.
ShuffledChangeLists == {<<>>, <<Ins("L1", "Mid")>>, <<Del("L1")>>,
                        <<Upd("L1", "Final", "Mid")>>}

ShuffledLines == {<<>>, <<CallerLine("L1", "Final")>>}

\* The timestamps of the logs in which commits lack their timestamp.
UntimedTimes == {Undefined, 1000}

(***************************************************************************)
(* Helpers over arrays of references.                                      *)
(***************************************************************************)
Range(arr) == {arr[i] : i \in 1..Len(arr)}

\* Array.prototype.find / findIndex by line id: the first index whose object
\* has the id, 0 when there is none.
FindIndex(h, arr, x) ==
  IF \E i \in 1..Len(arr) : h[arr[i]].id = x
    THEN CHOOSE i \in 1..Len(arr) :
           h[arr[i]].id = x /\ \A j \in 1..(i - 1) : h[arr[j]].id # x
    ELSE 0

\* A variant of the filter that keeps no line at all.
RemoveEvery(h, arr, x) == <<>>

\* Array.prototype.filter((line) => line.id !== x)
RECURSIVE RemoveId(_, _, _)
RemoveId(h, arr, x) ==
  IF arr = <<>> THEN <<>>
  ELSE IF h[Head(arr)].id = x THEN RemoveId(h, Tail(arr), x)
  ELSE <<Head(arr)>> \o RemoveId(h, Tail(arr), x)

(***************************************************************************)
(* makeSnapshots, step by step.                                            *)
(***************************************************************************)
Start(ls, cs) ==
  /\ given = ls
  /\ heap = ls
  /\ origin = [i \in 1..Len(ls) |-> "caller"]
  /\ lines = [i \in 1..Len(ls) |-> i]
  /\ commits = cs
  /\ restored = {}
  /\ currentLines = <<>>
  /\ snapshots = [t \in {} |-> <<>>]
  /\ atEmit = [heap |-> ls, origin |-> [i \in 1..Len(ls) |-> "caller"],
               restored |-> {}, cur |-> <<>>]
  /\ ci = 0
  /\ chi = 0
  /\ pc = "start"
  /\ range = <<>>
  /\ shown = [asked |-> FALSE, time |-> Undefined, texts |-> <<>>]
  /\ emitted = <<>>

\* Any current page with a newest-first log of at most Cardinality(Times)
\* commits that hold at most MaxOps changes in all.
InitSorted ==
  \E ls \in InputLines :
    \/ Start(ls, <<>>)
    \/ \E c1 \in ChangeListsUpTo(MaxOps) :
         \/ Start(ls, SortedLog(<<c1>>))
         \/ \E c2 \in ChangeListsUpTo(MaxOps - Len(c1)) :
              \/ Start(ls, SortedLog(<<c1, c2>>))
              \/ \E c3 \in ChangeListsUpTo(MaxOps - Len(c1) - Len(c2)) :
                   Start(ls, SortedLog(<<c1, c2, c3>>))

\* A small current page with a log of at most MaxCommits commits in any
\* order, timestamps repeated or not.
InitShuffled ==
  \E ls \in ShuffledLines, n \in 0..MaxCommits :
    \E ts \in [1..n -> Times], cl \in [1..n -> ShuffledChangeLists] :
      Start(ls, [k \in 1..n |-> Commit(ts[k], cl[k])])

\* A small current page with a log in which commits lack their timestamp.
InitUntimed ==
  \E ls \in ShuffledLines, n \in 1..MaxCommits :
    \E ts \in [1..n -> UntimedTimes], cl \in [1..n -> ShuffledChangeLists] :
      /\ \E k \in 1..n : ts[k] = Undefined
      /\ Start(ls, [k \in 1..n |-> Commit(ts[k], cl[k])])

\* The hook and the slider as they are before the viewer is mounted.
ViewerIdle ==
  /\ closed = TRUE
  /\ state = "uninitialized"
  /\ result = [ok |-> TRUE, run |-> 0, len |-> 0]
  /\ runs = <<>>
  /\ max = 0
  /\ index = 0
  /\ effectDue = FALSE
  /\ called = [name |-> "none", before |-> TRUE]

\* The load callback before its first call, on a page.
LoadIdle ==
  /\ layout = "page"
  /\ load = <<>>

\* convert before it is called.
ConvertIdle ==
  /\ convCommits = <<>>
  /\ changes = <<>>
  /\ convRange = <<>>
  /\ history = <<>>
  /\ recorded = <<>>
  /\ pos = 0
  /\ convPc = "idle"
  /\ got = [asked |-> FALSE, time |-> Undefined, texts |-> <<>>]

Init ==
  /\ InitSorted \/ InitShuffled \/ InitUntimed
  /\ ViewerIdle
  /\ ConvertIdle
  /\ LoadIdle

\* A variant of set that keeps the value a key already has.
MapSetIfAbsent(m, k, v) ==
  [t \in DOMAIN m \cup {k} |-> IF t \in DOMAIN m THEN m[t] ELSE v]

\* snapshots.set(commit.created, [...currentLines]);
MapSet(m, k, v) == [t \in DOMAIN m \cup {k} |-> IF t = k THEN v ELSE m[t]]

\* A variant that returns the current page as the only snapshot of an empty log.
ReturnCurrentPage ==
  /\ pc = "start"
  /\ Len(commits) = 0
  /\ snapshots' = MapSet(snapshots, 0, lines)
  /\ pc' = "done"
  /\ UNCHANGED <<others, emitted, view, given, lines, commits, heap, origin,
                 restored, currentLines, atEmit, ci, chi>>

\* if (commits.length === 0) return snapshots;
ReturnEmpty ==
  /\ pc = "start"
  /\ Len(commits) = 0
  /\ pc' = "done"
  /\ UNCHANGED <<others, emitted, view, given, lines, commits, heap, origin,
                 restored, currentLines, snapshots, atEmit, ci, chi>>

\* let currentLines = [...lines];
CopyLines ==
  /\ pc = "start"
  /\ Len(commits) # 0
  /\ currentLines' = lines
  /\ ci' = 1
  /\ chi' = 0
  /\ pc' = "loop"
  /\ UNCHANGED <<others, emitted, view, given, lines, commits, heap, origin,
                 restored, snapshots, atEmit>>

\* A variant that stores the snapshot with the commit's insertions undone.
StoredSnapshotAfterUndo ==
  SelectSeq(currentLines,
            LAMBDA r : \A c \in Range(commits[ci].changes) :
                         ~(c.type = "insert" /\ c.id = heap[r].id))

StoredSnapshot == currentLines

\* A variant that stores no snapshot for a commit without changes.
EmitUnlessEmpty ==
  /\ pc = "loop"
  /\ ci <= Len(commits)
  /\ chi = 0
  /\ snapshots' = IF commits[ci].changes = <<>>
                    THEN snapshots
                    ELSE MapSet(snapshots, commits[ci].created, StoredSnapshot)
  /\ atEmit' = [heap |-> heap, origin |-> origin, restored |-> restored,
                cur |-> currentLines]
  /\ emitted' = Append(emitted, StoredSnapshot)
  /\ chi' = 1
  /\ UNCHANGED <<others, view, given, lines, commits, heap, origin, restored,
                 currentLines, ci, pc>>

Emit ==
  /\ pc = "loop"
  /\ ci <= Len(commits)
  /\ chi = 0
  /\ snapshots' = MapSet(snapshots, commits[ci].created, StoredSnapshot)
  /\ atEmit' = [heap |-> heap, origin |-> origin, restored |-> restored,
                cur |-> currentLines]
  /\ emitted' = Append(emitted, StoredSnapshot)
  /\ chi' = 1
  /\ UNCHANGED <<others, view, given, lines, commits, heap, origin, restored,
                 currentLines, ci, pc>>

\* The change the inner loop handles at its k-th iteration:
\* for (const change of commit.changes)
ChangeAt(commit, k) == commit.changes[k]

AtChange ==
  /\ pc = "loop"
  /\ ci <= Len(commits)
  /\ chi >= 1
  /\ chi <= Len(commits[ci].changes)

\* What undoing one change reads and writes: the objects and the working
\* sequence (with the two records kept about the objects).
Working ==
  [heap |-> heap, origin |-> origin, restored |-> restored, cur |-> currentLines]

\* A variant that picks the first object with the id only where it is a
\* placeholder (its author still the dummy one).
FutureLinesOfPlaceholders(h, x) ==
  {snapshots[t][FindIndex(h, snapshots[t], x)] :
     t \in {u \in DOMAIN snapshots :
              /\ FindIndex(h, snapshots[u], x) # 0
              /\ h[snapshots[u][FindIndex(h, snapshots[u], x)]].userId
                   = DummyUser}}

\* The first object of each stored snapshot that has the id (lines 43-47).
FutureLines(h, x) ==
  {snapshots[t][FindIndex(h, snapshots[t], x)] :
     t \in {u \in DOMAIN snapshots : FindIndex(h, snapshots[u], x) # 0}}

\* A variant that never restores: an Insert is undone by removal alone.
InsertNeverRestores(w, x) == FALSE

\* Whether undoing Insert of id x restores a line in place (lines 35-40).
InsertRestores(w, x) ==
  /\ FindIndex(w.heap, w.cur, x) # 0
  /\ w.heap[w.cur[FindIndex(w.heap, w.cur, x)]].text = Dummy

\* "_insert" in change (lines 30-58)
UndoInsertOf(w, commit, change) ==
  LET x == change.id
      idx == FindIndex(w.heap, w.cur, x)
  IN
    IF InsertRestores(w, x)
      THEN
        LET p == w.cur[idx]
            h1 == [w.heap EXCEPT ![p].text = change.text]
            h2 == [r \in DOMAIN h1 |->
                     IF r \in FutureLines(h1, x)
                       THEN [h1[r] EXCEPT !.created = commit.created]
                       ELSE h1[r]]
        IN
          [w EXCEPT !.heap = [h2 EXCEPT ![p].updated = commit.created,
                                        ![p].userId = commit.userId],
                    !.restored = w.restored \cup {p}]
      ELSE [w EXCEPT !.cur = RemoveId(w.heap, w.cur, x)]

\* A variant that carries the Update's new text instead of its previous one.
RevertedLineNewText(line, change) ==
  [line EXCEPT !.text = change.text, !.updated = DummyTime]

\* The object that replaces a normal line when an Update is undone (lines 75-79).
RevertedLine(line, change) ==
  [line EXCEPT !.text = change.origText, !.updated = DummyTime]

\* A variant that reverts a normal line by writing into the shared object.
UndoUpdateInPlaceOf(w, commit, change) ==
  LET idx == FindIndex(w.heap, w.cur, change.id) IN
    IF idx = 0 THEN w
    ELSE
      LET p == w.cur[idx] IN
        IF w.heap[p].text = Dummy
          THEN [w EXCEPT !.heap = [w.heap EXCEPT ![p].text = change.text,
                                                 ![p].updated = commit.created,
                                                 ![p].userId = commit.userId],
                         !.restored = w.restored \cup {p}]
          ELSE [w EXCEPT !.heap = [w.heap EXCEPT ![p].text = change.origText,
                                                 ![p].updated = DummyTime]]

\* The line put back when a Delete is undone (lines 84-90).
RestoredLine(x) ==
  [id |-> x, text |-> Dummy, userId |-> DummyUser,
   created |-> DummyTime, updated |-> DummyTime]

\* A variant that puts a line with the previous text back when the id is absent.
UndoUpdateOrRestoreOf(w, commit, change) ==
  LET idx == FindIndex(w.heap, w.cur, change.id) IN
    IF idx = 0
      THEN [w EXCEPT !.heap = Append(w.heap, [RestoredLine(change.id)
                                                EXCEPT !.text = change.origText]),
                     !.origin = Append(w.origin, "update"),
                     !.cur = Append(w.cur, Len(w.heap) + 1)]
    ELSE
      LET p == w.cur[idx] IN
        IF w.heap[p].text = Dummy
          THEN [w EXCEPT !.heap = [w.heap EXCEPT ![p].text = change.text,
                                                 ![p].updated = commit.created,
                                                 ![p].userId = commit.userId],
                         !.restored = w.restored \cup {p}]
          ELSE [w EXCEPT !.heap = Append(w.heap, RevertedLine(w.heap[p], change)),
                         !.origin = Append(w.origin, "update"),
                         !.cur = [w.cur EXCEPT ![idx] = Len(w.heap) + 1]]

\* "_update" in change (lines 59-81)
UndoUpdateOf(w, commit, change) ==
  LET idx == FindIndex(w.heap, w.cur, change.id) IN
    IF idx = 0 THEN w
    ELSE
      LET p == w.cur[idx] IN
        IF w.heap[p].text = Dummy
          THEN [w EXCEPT !.heap = [w.heap EXCEPT ![p].text = change.text,
                                                 ![p].updated = commit.created,
                                                 ![p].userId = commit.userId],
                         !.restored = w.restored \cup {p}]
          ELSE [w EXCEPT !.heap = Append(w.heap, RevertedLine(w.heap[p], change)),
                         !.origin = Append(w.origin, "update"),
                         !.cur = [w.cur EXCEPT ![idx] = Len(w.heap) + 1]]

\* A variant that puts the restored line at the front of the working sequence.
UndoDeleteAtFrontOf(w, commit, change) ==
  [w EXCEPT !.heap = Append(w.heap, RestoredLine(change.id)),
            !.origin = Append(w.origin, "delete"),
            !.cur = <<Len(w.heap) + 1>> \o w.cur]

\* "_delete" in change (lines 82-93)
UndoDeleteOf(w, commit, change) ==
  [w EXCEPT !.heap = Append(w.heap, RestoredLine(change.id)),
            !.origin = Append(w.origin, "delete"),
            !.cur = Append(w.cur, Len(w.heap) + 1)]

\* The body of the inner loop (lines 30-93).
UndoOf(w, commit, change) ==
  IF change.type = "insert" THEN UndoInsertOf(w, commit, change)
  ELSE IF change.type = "update" THEN UndoUpdateOf(w, commit, change)
  ELSE UndoDeleteOf(w, commit, change)

\* A variant in which the array stored for the commit at line 26 is the
\* working array itself, not a copy of it.
UndoStepShared(type) ==
  /\ AtChange
  /\ ChangeAt(commits[ci], chi).type = type
  /\ LET w == UndoOf(Working, commits[ci], ChangeAt(commits[ci], chi)) IN
       /\ heap' = w.heap
       /\ origin' = w.origin
       /\ restored' = w.restored
       /\ currentLines' = w.cur
       /\ snapshots' = [snapshots EXCEPT ![commits[ci].created] = w.cur]
  /\ chi' = chi + 1
  /\ UNCHANGED <<others, emitted, view, given, lines, commits, atEmit, ci, pc>>

\* One iteration of the inner loop on a change of the given type.
UndoStep(type) ==
  /\ AtChange
  /\ ChangeAt(commits[ci], chi).type = type
  /\ LET w == UndoOf(Working, commits[ci], ChangeAt(commits[ci], chi)) IN
       /\ heap' = w.heap
       /\ origin' = w.origin
       /\ restored' = w.restored
       /\ currentLines' = w.cur
  /\ chi' = chi + 1
  /\ UNCHANGED <<others, emitted, view, given, lines, commits, snapshots,
                 atEmit, ci, pc>>

UndoInsert == UndoStep("insert")

UndoUpdate == UndoStep("update")

UndoDelete == UndoStep("delete")

\* The inner loop is over: the outer loop takes the next commit.
NextCommit ==
  /\ pc = "loop"
  /\ ci <= Len(commits)
  /\ chi = Len(commits[ci].changes) + 1
  /\ ci' = ci + 1
  /\ chi' = 0
  /\ UNCHANGED <<others, emitted, view, given, lines, commits, heap, origin,
                 restored, currentLines, snapshots, atEmit, pc>>

\* return snapshots;
Return ==
  /\ pc = "loop"
  /\ ci = Len(commits) + 1
  /\ pc' = "done"
  /\ UNCHANGED <<others, emitted, view, given, lines, commits, heap, origin,
                 restored, currentLines, snapshots, atEmit, ci, chi>>

(***************************************************************************)
(* The viewer's callback, after makeSnapshots has returned.                *)
(***************************************************************************)
\* Array.from(snapshots.keys()): the keys in the order of their first
\* insertion, which is the order of the commits in the log.
RECURSIVE KeysOf(_, _)
KeysOf(cs, seen) ==
  IF cs = <<>> THEN <<>>
  ELSE IF Head(cs).created \in seen THEN KeysOf(Tail(cs), seen)
  ELSE <<Head(cs).created>> \o KeysOf(Tail(cs), seen \cup {Head(cs).created})

\* A variant that leaves the keys in their insertion order.
Unsorted(s) == s

\* Array.prototype.sort((a, b) => a - b): the defined elements in the order
\* of the comparator, the undefined ones after them.
RECURSIVE SortAscending(_)
SortAscending(s) ==
  IF s = <<>> THEN <<>>
  ELSE
    LET rest == SortAscending(Tail(s))
        x == Head(s)
        lower == SelectSeq(rest, LAMBDA y : y # Undefined /\ y - x <= 0)
        upper == SelectSeq(rest, LAMBDA y : y = Undefined \/ y - x > 0)
    IN IF x = Undefined THEN rest \o <<x>> ELSE lower \o <<x>> \o upper

\* const timestamps = Array.from(snapshots.keys()).sort((a, b) => a - b);
\* return { range: timestamps, getSnapshot };
DeriveRange ==
  /\ pc = "done"
  /\ range' = SortAscending(KeysOf(commits, {}))
  /\ pc' = "view"
  /\ UNCHANGED <<others, emitted, shown, given, lines, commits, heap, origin,
                 restored, currentLines, snapshots, atEmit, ci, chi>>

\* A variant that returns the ids of the lines.
GetSnapshotIdsOf(time) ==
  IF time \in DOMAIN snapshots
    THEN [i \in 1..Len(snapshots[time]) |-> heap[snapshots[time][i]].id]
    ELSE <<>>

\* const lines = snapshots.get(time);
\* return lines ? lines.map((line) => line.text) : [];
GetSnapshotOf(time) ==
  IF time \in DOMAIN snapshots
    THEN [i \in 1..Len(snapshots[time]) |-> heap[snapshots[time][i]].text]
    ELSE <<>>

GetSnapshot ==
  /\ pc = "view"
  /\ \E time \in Times :
       shown' = [asked |-> TRUE, time |-> time, texts |-> GetSnapshotOf(time)]
  /\ UNCHANGED <<others, emitted, range, given, lines, commits, heap, origin,
                 restored, currentLines, snapshots, atEmit, ci, chi, pc>>

Next ==
  \/ ReturnEmpty
  \/ CopyLines
  \/ Emit
  \/ UndoInsert
  \/ UndoUpdate
  \/ UndoDelete
  \/ NextCommit
  \/ Return
  \/ DeriveRange
  \/ GetSnapshot

Spec == Init /\ [][Next]_vars

(***************************************************************************)
(* useAsync (src/useAsync.ts) as the viewer uses it, and the viewer's      *)
(* slider (src/convert_test.ts, lines 331-401).                            *)
(*                                                                         *)
(* An invocation of the callback is a record: the closed flag it was       *)
(* started with, whether its promise is still awaited, what it settled to, *)
(* and its timer (armed, fired or cleared). The code after the await       *)
(* (lines 49-55) runs in one piece, so settling is one step. Invocations   *)
(* are never cancelled: several can be unsettled at once.                  *)
(***************************************************************************)
MaxRuns == 4       \* at most this many invocations of the callback
MaxRange == 2      \* a delivered range holds at most this many timestamps

NewRun(c) ==
  [closedAtStart |-> c, phase |-> "awaiting", outcome |-> "none",
   timer |-> "armed"]

\* The state after the first render: nothing invoked yet.
ViewerInit ==
  /\ Start(<<>>, <<>>)
  /\ ConvertIdle
  /\ LoadIdle
  /\ ViewerIdle

\* The controller's open, close and toggle (lines 333-335).
Open ==
  /\ closed' = FALSE
  /\ called' = [name |-> "open", before |-> closed]
  /\ UNCHANGED <<sweepVars, convertVars, loadVars, state, result, runs, max,
                 index, effectDue>>

Close ==
  /\ closed' = TRUE
  /\ called' = [name |-> "close", before |-> closed]
  /\ UNCHANGED <<sweepVars, convertVars, loadVars, state, result, runs, max,
                 index, effectDue>>

\* A variant of toggle that opens the viewer whatever the flag is.
ToggleOpens ==
  /\ closed' = FALSE
  /\ called' = [name |-> "toggle", before |-> closed]
  /\ UNCHANGED <<sweepVars, convertVars, loadVars, state, result, runs, max,
                 index, effectDue>>

Toggle ==
  /\ closed' = ~closed
  /\ called' = [name |-> "toggle", before |-> closed]
  /\ UNCHANGED <<sweepVars, convertVars, loadVars, state, result, runs, max,
                 index, effectDue>>

\* The effect of useAsync (lines 42-58): it runs after the first render and
\* after a render in which the dependency differs from the one of the last
\* invocation; it arms the timer (line 44) and calls the callback (line 46).
\* The callback of the first render is the one made with closed = true
\* (src/convert_test.ts, line 332), whatever the controller did since.
Invoke ==
  /\ Len(runs) < MaxRuns
  /\ IF runs = <<>> THEN TRUE ELSE runs[Len(runs)].closedAtStart # closed
  /\ runs' = Append(runs, NewRun(IF runs = <<>> THEN TRUE ELSE closed))
  /\ UNCHANGED <<sweepVars, convertVars, loadVars, closed, called, state,
                 result, max, index, effectDue>>

\* The timer's callback (line 44): setState("pending").
TimerFires ==
  \E i \in DOMAIN runs :
    /\ runs[i].timer = "armed"
    /\ state' = "pending"
    /\ runs' = [runs EXCEPT ![i].timer = "fired"]
    /\ UNCHANGED <<sweepVars, convertVars, loadVars, closed, called, result,
                   max, index, effectDue>>

\* A variant of clearTimeout that cancels nothing.
ClearNothing(timer) == timer

\* clearTimeout(timer) (line 54): an armed timer is cancelled; on a timer
\* that has fired it does nothing.
ClearTimeout(timer) == IF timer = "armed" THEN "cleared" ELSE timer

\* The finally block (lines 53-56) on invocation i settling to outcome o.
\* A variant of the settling that leaves the timer as it is.
SettledTimerKept(i, o) ==
  [runs EXCEPT ![i].phase = "settled", ![i].outcome = o]

Settled(i, o) ==
  [runs EXCEPT ![i].phase = "settled", ![i].outcome = o,
               ![i].timer = ClearTimeout(runs[i].timer)]

\* The callback resolves to a value (lines 46-50, 53-56). The viewer's
\* callback does so only when it was started open; the value is a range of
\* n timestamps with its lookup.
Resolve ==
  \E i \in DOMAIN runs, n \in 0..MaxRange :
    /\ runs[i].phase = "awaiting"
    /\ ~runs[i].closedAtStart
    /\ result' = [ok |-> TRUE, run |-> i, len |-> n]
    /\ effectDue' = TRUE
    /\ state' = "resolved"
    /\ runs' = Settled(i, "value")
    /\ UNCHANGED <<sweepVars, convertVars, loadVars, closed, called, max,
                   index>>

\* A variant in which an undefined outcome puts the initial value back.
ResolveUndefinedResets ==
  \E i \in DOMAIN runs :
    /\ runs[i].phase = "awaiting"
    /\ result' = [ok |-> TRUE, run |-> 0, len |-> 0]
    /\ state' = "resolved"
    /\ runs' = Settled(i, "undefined")
    /\ UNCHANGED <<sweepVars, convertVars, loadVars, closed, called, max,
                   index, effectDue>>

\* The callback resolves to undefined (lines 46-49, 53-56): the viewer's
\* callback does so when it was started closed or off a page.
ResolveUndefined ==
  \E i \in DOMAIN runs :
    /\ runs[i].phase = "awaiting"
    /\ state' = "resolved"
    /\ runs' = Settled(i, "undefined")
    /\ UNCHANGED <<sweepVars, convertVars, loadVars, closed, called, result,
                   max, index, effectDue>>

\* The callback rejects (lines 51-56): a request of the viewer's callback
\* failed, which needs the viewer to have been open.
Reject ==
  \E i \in DOMAIN runs :
    /\ runs[i].phase = "awaiting"
    /\ ~runs[i].closedAtStart
    /\ result' = [ok |-> FALSE, run |-> i, len |-> 0]
    /\ effectDue' = TRUE
    /\ state' = "resolved"
    /\ runs' = Settled(i, "error")
    /\ UNCHANGED <<sweepVars, convertVars, loadVars, closed, called, max,
                   index>>

\* A variant that reports the state whatever the result is.
ReportedState == state

\* What the hook returns (lines 60-62).
Reported == IF result.ok THEN state ELSE "rejected"

\* Math.max(0, n)
Max0(n) == IF n > 0 THEN n ELSE 0

\* A variant of the effect that puts the slider on the oldest position.
SliderEffectToOldest ==
  /\ effectDue
  /\ effectDue' = FALSE
  /\ IF result.ok
       THEN max' = Max0(result.len - 1) /\ index' = 0
       ELSE UNCHANGED <<max, index>>
  /\ UNCHANGED <<sweepVars, convertVars, loadVars, closed, called, state,
                 result, runs>>

\* The slider's effect (lines 390-395), which runs after a render whose
\* result is a new one. The state it tests is the one of that render, the
\* render that follows the settling: "resolved" for a value, "rejected"
\* for an error.
SliderEffect ==
  /\ effectDue
  /\ effectDue' = FALSE
  /\ IF result.ok
       THEN max' = Max0(result.len - 1) /\ index' = Max0(result.len - 1)
       ELSE UNCHANGED <<max, index>>
  /\ UNCHANGED <<sweepVars, convertVars, loadVars, closed, called, state,
                 result, runs>>

\* onSliderChange (lines 397-401): the slider is shown while the viewer is
\* open, the result is not an error and the range is not empty; its value
\* lies between 0 and max.
SliderInput ==
  /\ ~closed
  /\ result.ok
  /\ result.len > 0
  /\ \E v \in 0..max : index' = v
  /\ UNCHANGED <<sweepVars, convertVars, loadVars, closed, called, state,
                 result, runs, max, effectDue>>

ViewerNext ==
  \/ Open
  \/ Close
  \/ Toggle
  \/ Invoke
  \/ TimerFires
  \/ Resolve
  \/ ResolveUndefined
  \/ Reject
  \/ SliderEffect
  \/ SliderInput

ViewerSpec == ViewerInit /\ [][ViewerNext]_vars

\* The same, for behaviours in which the effect of useAsync runs whenever it
\* is due (Preact runs the effects of a render) and the promise of every
\* invocation settles.
Settle == Resolve \/ ResolveUndefined \/ Reject

ViewerLiveSpec ==
  /\ ViewerInit
  /\ [][ViewerNext]_vars
  /\ WF_vars(Invoke)
  /\ WF_vars(Settle)

(***************************************************************************)
(* The load callback of the viewer (src/convert_test.ts, lines 344-381),   *)
(* step by step: the two guards, the page request, the commits request,    *)
(* the construction of the snapshots. The record of an invocation's        *)
(* callback says which requests it has sent and how it ended; useAsync     *)
(* takes the outcome over with the steps of ViewerSpec.                    *)
(***************************************************************************)
Layouts == {"page", "list"}

LoadInit ==
  /\ Start(<<>>, <<>>)
  /\ ConvertIdle
  /\ ViewerIdle
  /\ LoadIdle

\* scrapbox.Layout changes when the user moves to another kind of view; the
\* callback reads it in the call the effect makes (line 346).
Navigate ==
  /\ Len(load) = Len(runs)
  /\ \E l \in Layouts : l # layout /\ layout' = l
  /\ UNCHANGED <<sweepVars, viewerVars, convertVars, load>>

\* A variant of the guards that lets every invocation through.
SkipsNever(i) == FALSE

\* if (closed) return; if (scrapbox.Layout !== "page") return; (lines 345-346)
Skips(i) == runs[i].closedAtStart \/ layout # "page"

ReturnedUndefined ==
  [layoutSeen |-> layout, step |-> "returned", pageRequested |-> FALSE,
   commitsRequested |-> FALSE, page |-> "none", built |-> FALSE,
   outcome |-> "undefined"]

\* const pageRes = await getPage(...) (lines 349-352): the request is sent.
AwaitingPage ==
  [layoutSeen |-> layout, step |-> "page", pageRequested |-> TRUE,
   commitsRequested |-> FALSE, page |-> "none", built |-> FALSE,
   outcome |-> "none"]

\* The call of the callback (src/useAsync.ts, line 46) up to its first await.
CallbackEnters ==
  /\ Len(load) < Len(runs)
  /\ load' = Append(load, IF Skips(Len(load) + 1) THEN ReturnedUndefined
                          ELSE AwaitingPage)
  /\ UNCHANGED <<sweepVars, viewerVars, convertVars, layout>>

\* The page response (lines 353-362): a failure throws, a success sends the
\* commits request.
PageResponds ==
  /\ \E i \in DOMAIN load, ok \in BOOLEAN :
       /\ load[i].step = "page"
       /\ load' = [load EXCEPT ![i] =
                     IF ok
                       THEN [@ EXCEPT !.page = "ok", !.step = "commits",
                                      !.commitsRequested = TRUE]
                       ELSE [@ EXCEPT !.page = "failed", !.step = "returned",
                                      !.outcome = "error"]]
  /\ UNCHANGED <<sweepVars, viewerVars, convertVars, layout>>

\* The commits response (lines 363-380): a failure throws, a success builds
\* the snapshots and returns the range and getSnapshot.
CommitsResponds ==
  /\ \E i \in DOMAIN load, ok \in BOOLEAN :
       /\ load[i].step = "commits"
       /\ load' = [load EXCEPT ![i] =
                     IF ok
                       THEN [@ EXCEPT !.built = TRUE, !.step = "returned",
                                      !.outcome = "value"]
                       ELSE [@ EXCEPT !.step = "returned",
                                      !.outcome = "error"]]
  /\ UNCHANGED <<sweepVars, viewerVars, convertVars, layout>>

\* The step takes over the outcome o of a callback that has returned.
Delivers(o) ==
  \E i \in DOMAIN load :
    /\ load[i].outcome = o
    /\ runs[i].outcome = "none"
    /\ runs'[i].outcome = o

LoadResolve == Resolve /\ Delivers("value")

LoadResolveUndefined == ResolveUndefined /\ Delivers("undefined")

LoadReject == Reject /\ Delivers("error")

LoadNext ==
  \/ Open
  \/ Close
  \/ Toggle
  \/ Navigate
  \/ Invoke
  \/ CallbackEnters
  \/ PageResponds
  \/ CommitsResponds
  \/ LoadResolve
  \/ LoadResolveUndefined
  \/ LoadReject

LoadSpec == LoadInit /\ [][LoadNext]_vars

(***************************************************************************)
(* convert (src/unnamed/part_002) and the getSnapshot that the             *)
(* commit-history viewer builds from its result (src/App.tsx, lines        *)
(* 58-82).                                                                 *)
(*                                                                         *)
(* A line history is a record of the line id and its Map of snapshots, a   *)
(* function from timestamps. The reduce of lines 37-80 is one step per     *)
(* change info. Timestamps are kept as numbers; the default sort of line   *)
(* 34 compares them as the strings of their decimal digits.                *)
(***************************************************************************)
MaxLog == 3        \* at most this many changes in the commits given to convert

EndAnchor == "_end"

\* The changes of a commit: _insert, _update, _delete, and one of the other
\* kinds a commit can carry.
RawInsert(x, parent, t) ==
  [kind |-> "_insert", id |-> x, parentId |-> parent, text |-> t]
RawUpdate(x, t) ==
  [kind |-> "_update", id |-> x, parentId |-> NoText, text |-> t]
RawDelete(x) ==
  [kind |-> "_delete", id |-> x, parentId |-> NoText, text |-> NoText]
RawOther ==
  [kind |-> "title", id |-> NoText, parentId |-> NoText, text |-> "t"]

RawChanges ==
  { RawInsert("L1", EndAnchor, "a"), RawInsert("L2", EndAnchor, "b"),
    RawInsert("L3", "L2", "c"), RawUpdate("L1", "d"), RawDelete("L1"),
    RawOther }

\* The timestamps of the commits, by position in the list: rising through a
\* change in the number of digits, falling, or equal in pairs.
Schedules == {"rising", "falling", "paired"}

CreatedOf(sched, k) ==
  CASE sched = "rising" -> 8 + k
    [] sched = "falling" -> 11 - k
    [] OTHER -> 10 + ((k + 1) \div 2)

\* The commits made of the changes s, cut into commits after the positions
\* in cuts.
CommitNo(cuts, i) == 1 + Cardinality({c \in cuts : c < i})

ChangesOfCommit(s, cuts, k) ==
  LET mine == {i \in 1..Len(s) : CommitNo(cuts, i) = k}
      first == CHOOSE i \in mine : \A j \in mine : i <= j
      last == CHOOSE i \in mine : \A j \in mine : j <= i
  IN SubSeq(s, first, last)

CommitsOf(s, cuts, sched) ==
  [k \in 1..(IF s = <<>> THEN 0 ELSE Cardinality(cuts) + 1) |->
     [created |-> CreatedOf(sched, k), userId |-> "u1",
      changes |-> ChangesOfCommit(s, cuts, k)]]

\* The page snapshots of getPageHistory (src/fetch.ts, lines 24-26): the
\* texts of the lines stored under each timestamp.
PageSnapshots == (5 :> <<"p1", "p2">>) @@ (9 :> <<"p3">>)

\* The positions of the slider the viewer can ask for.
QueryTimes == {5} \cup (8..12)

ConvertInit ==
  /\ Start(<<>>, <<>>)
  /\ ViewerIdle
  /\ LoadIdle
  /\ \E n \in 0..MaxLog :
       \E s \in [1..n -> RawChanges], cuts \in SUBSET (1..(n - 1)),
          sched \in Schedules :
         convCommits = CommitsOf(s, cuts, sched)
  /\ changes = <<>>
  /\ convRange = <<>>
  /\ history = <<>>
  /\ recorded = <<>>
  /\ pos = 0
  /\ convPc = "call"
  /\ got = [asked |-> FALSE, time |-> Undefined, texts |-> <<>>]

\* makeChangeInfo (lines 85-114); NoInfo is its undefined.
NoInfo ==
  [type |-> "none", id |-> NoText, parentId |-> NoText, text |-> NoText,
   userId |-> NoText, created |-> Undefined]

MakeChangeInfo(change, userId, created) ==
  CASE change.kind = "_insert" ->
         [type |-> "insert", id |-> change.id, parentId |-> change.parentId,
          text |-> change.text, userId |-> userId, created |-> created]
    [] change.kind = "_update" ->
         [type |-> "update", id |-> change.id, parentId |-> NoText,
          text |-> change.text, userId |-> userId, created |-> created]
    [] change.kind = "_delete" ->
         [type |-> "delete", id |-> change.id, parentId |-> NoText,
          text |-> NoText, userId |-> userId, created |-> created]
    [] OTHER -> NoInfo

\* changes.flatMap((change) => changeInfo ? [changeInfo] : []) of one commit.
RECURSIVE ChangeInfosOf(_, _, _)
ChangeInfosOf(chs, userId, created) ==
  IF chs = <<>> THEN <<>>
  ELSE
    LET changeInfo == MakeChangeInfo(Head(chs), userId, created)
    IN (IF changeInfo = NoInfo THEN <<>> ELSE <<changeInfo>>)
         \o ChangeInfosOf(Tail(chs), userId, created)

\* commits.flatMap(...) (lines 26-32).
RECURSIVE FlatMapCommits(_)
FlatMapCommits(cs) ==
  IF cs = <<>> THEN <<>>
  ELSE ChangeInfosOf(Head(cs).changes, Head(cs).userId, Head(cs).created)
         \o FlatMapCommits(Tail(cs))

\* [...new Set(array)]: the distinct elements, in the order of their first
\* occurrence.
RECURSIVE Distinct(_)
Distinct(s) ==
  IF s = <<>> THEN <<>>
  ELSE
    LET front == Distinct(SubSeq(s, 1, Len(s) - 1))
        x == s[Len(s)]
    IN IF x \in Range(front) THEN front ELSE Append(front, x)

\* String(n) of a non-negative integer, as the sequence of its digits.
RECURSIVE StringOf(_)
StringOf(n) == IF n < 10 THEN <<n>> ELSE Append(StringOf(n \div 10), n % 10)

\* a < b for two strings of digits: the order of their code units.
RECURSIVE StringLess(_, _)
StringLess(a, b) ==
  IF a = <<>> THEN b # <<>>
  ELSE IF b = <<>> THEN FALSE
  ELSE IF Head(a) # Head(b) THEN Head(a) < Head(b)
  ELSE StringLess(Tail(a), Tail(b))

\* Array.prototype.sort() without a comparator: the elements in the order
\* of their strings.
RECURSIVE DefaultSort(_)
DefaultSort(s) ==
  IF s = <<>> THEN <<>>
  ELSE
    LET rest == DefaultSort(Tail(s))
        x == Head(s)
        lower == SelectSeq(rest, LAMBDA y :
                             ~StringLess(StringOf(x), StringOf(y)))
        upper == SelectSeq(rest, LAMBDA y :
                             StringLess(StringOf(x), StringOf(y)))
    IN lower \o <<x>> \o upper

CreatedOfChanges(chs) == [i \in 1..Len(chs) |-> chs[i].created]

\* Lines 26-34: the change infos and the range.
ExtractChanges ==
  /\ convPc = "call"
  /\ changes' = FlatMapCommits(convCommits)
  /\ convRange' = DefaultSort(Distinct(CreatedOfChanges(changes')))
  /\ history' = <<>>
  /\ recorded' = <<>>
  /\ pos' = 1
  /\ convPc' = "reduce"
  /\ UNCHANGED <<sweepVars, viewerVars, loadVars, convCommits, got>>

\* lines.findIndex(({ id }) => id === x): 0 when there is none.
HistoryIndex(ls, x) ==
  IF \E i \in 1..Len(ls) : ls[i].id = x
    THEN CHOOSE i \in 1..Len(ls) :
           ls[i].id = x /\ \A j \in 1..(i - 1) : ls[j].id # x
    ELSE 0

\* The snapshot a change info writes (lines 40-44 and 74-78).
SnapShotOf(change) ==
  [text |-> IF change.type = "insert" THEN change.text
            ELSE IF change.type = "update" THEN change.text ELSE NoText,
   type |-> change.type, userId |-> change.userId]

\* Lines 39-48.
NewLineSnapShot(change) ==
  [id |-> change.id, snapshots |-> (change.created :> SnapShotOf(change))]

\* A variant that puts the line behind the one found.
InsertBehind(ls, i, line) ==
  SubSeq(ls, 1, i) \o <<line>> \o SubSeq(ls, i + 1, Len(ls))

\* [...lines.slice(0, index), line, ...lines.slice(index)] (line 61).
InsertBefore(ls, i, line) ==
  SubSeq(ls, 1, i - 1) \o <<line>> \o SubSeq(ls, i, Len(ls))

\* The reduce step of an insert (lines 38-62).
ReduceInsert ==
  /\ convPc = "reduce"
  /\ pos <= Len(changes)
  /\ changes[pos].type = "insert"
  /\ LET change == changes[pos]
         line == NewLineSnapShot(change)
         i == HistoryIndex(history, change.parentId)
     IN IF change.parentId = EndAnchor \/ i = 0
          THEN /\ history' = Append(history, line)
               /\ recorded' = Append(recorded, <<change>>)
          ELSE /\ history' = InsertBefore(history, i, line)
               /\ recorded' = InsertBefore(recorded, i, <<change>>)
  /\ pos' = pos + 1
  /\ UNCHANGED <<sweepVars, viewerVars, loadVars, convCommits, changes,
                 convRange, convPc, got>>

\* The reduce step of an update or a delete whose line is in the list
\* (lines 65 and 74-79).
ReduceRecord ==
  /\ convPc = "reduce"
  /\ pos <= Len(changes)
  /\ changes[pos].type # "insert"
  /\ LET change == changes[pos]
         i == HistoryIndex(history, change.id)
     IN /\ i # 0
        /\ history' = [history EXCEPT ![i].snapshots =
                         MapSet(@, change.created, SnapShotOf(change))]
        /\ recorded' = [recorded EXCEPT ![i] = Append(@, change)]
  /\ pos' = pos + 1
  /\ UNCHANGED <<sweepVars, viewerVars, loadVars, convCommits, changes,
                 convRange, convPc, got>>

\* The reduce step of an update or a delete whose line is not in the list
\* (lines 65-72).
ReduceSkip ==
  /\ convPc = "reduce"
  /\ pos <= Len(changes)
  /\ changes[pos].type # "insert"
  /\ HistoryIndex(history, changes[pos].id) = 0
  /\ pos' = pos + 1
  /\ UNCHANGED <<sweepVars, viewerVars, loadVars, convCommits, changes,
                 convRange, history, recorded, convPc, got>>

\* return { history: lines, range }; (line 82)
ConvertReturn ==
  /\ convPc = "reduce"
  /\ pos > Len(changes)
  /\ convPc' = "returned"
  /\ UNCHANGED <<sweepVars, viewerVars, loadVars, convCommits, changes,
                 convRange, history, recorded, pos, got>>

\* Math.max() of no argument.
MinusInfinity == -1000000

\* A variant that takes the oldest of the earlier keys.
PrevUpdatedOldest(keys, time) ==
  LET before == {updated \in keys : updated < time}
  IN IF before = {} THEN MinusInfinity
     ELSE CHOOSE k \in before : \A o \in before : k <= o

\* Math.max(...[...snapshots.keys()].filter((updated) => updated < time))
PrevUpdated(keys, time) ==
  LET before == {updated \in keys : updated < time}
  IN IF before = {} THEN MinusInfinity
     ELSE CHOOSE k \in before : \A o \in before : o <= k

\* The callback of the flatMap (src/App.tsx, lines 68-80) on one line history.
TextsOfLine(snaps, time) ==
  IF time \in DOMAIN snaps
    THEN IF snaps[time].text = NoText THEN <<>> ELSE <<snaps[time].text>>
    ELSE
      LET prevUpdated == PrevUpdated(DOMAIN snaps, time)
      IN IF prevUpdated = time THEN <<>>
         ELSE IF prevUpdated \notin DOMAIN snaps THEN <<>>
         ELSE IF snaps[prevUpdated].text = NoText THEN <<>>
         ELSE <<snaps[prevUpdated].text>>

RECURSIVE FlatMapHistory(_, _)
FlatMapHistory(ls, time) ==
  IF ls = <<>> THEN <<>>
  ELSE TextsOfLine(Head(ls).snapshots, time) \o FlatMapHistory(Tail(ls), time)

\* getSnapshot of the commit-history viewer (src/App.tsx, lines 62-81).
AppGetSnapshotOf(time) ==
  IF time \notin Range(convRange)
    THEN IF time \in DOMAIN PageSnapshots THEN PageSnapshots[time] ELSE <<>>
    ELSE FlatMapHistory(history, time)

AppGetSnapshot ==
  /\ convPc = "returned"
  /\ \E time \in QueryTimes :
       got' = [asked |-> TRUE, time |-> time, texts |-> AppGetSnapshotOf(time)]
  /\ UNCHANGED <<sweepVars, viewerVars, loadVars, convCommits, changes,
                 convRange, history, recorded, pos, convPc>>

ConvertNext ==
  \/ ExtractChanges
  \/ ReduceInsert
  \/ ReduceRecord
  \/ ReduceSkip
  \/ ConvertReturn
  \/ AppGetSnapshot

ConvertSpec == ConvertInit /\ [][ConvertNext]_vars

(***************************************************************************)
(* Vocabulary of the properties.                                           *)
(***************************************************************************)
Done == pc = "done"

DistinctTimes ==
  \A i, j \in 1..Len(commits) : commits[i].created = commits[j].created => i = j

\* The order the function documents: commits from newest to oldest.
NewestFirst ==
  /\ \A i \in 1..Len(commits) : commits[i].created # Undefined
  /\ \A i, j \in 1..Len(commits) :
       i < j => commits[i].created > commits[j].created

IdsOf(arr) == [i \in 1..Len(arr) |-> heap[arr[i]].id]

HasId(arr, x) == \E i \in 1..Len(arr) : heap[arr[i]].id = x

GivenIds == {given[i].id : i \in 1..Len(given)}

\* The places <<k, j>> of the log whose change is of the type and on the id.
OpsOn(x) ==
  {kj \in (1..Len(commits)) \X (1..MaxOps + 1) :
     /\ kj[2] <= Len(commits[kj[1]].changes)
     /\ commits[kj[1]].changes[kj[2]].id = x}

OpAt(kj) == commits[kj[1]].changes[kj[2]]

UndoesNormalUpdate ==
  /\ AtChange
  /\ ChangeAt(commits[ci], chi).type = "update"
  /\ FindIndex(heap, currentLines, ChangeAt(commits[ci], chi).id) # 0
  /\ heap[currentLines[FindIndex(heap, currentLines,
                                 ChangeAt(commits[ci], chi).id)]].text # Dummy
  /\ chi' = chi + 1

C2_UpdateRevertAllocates ==
  [][UndoesNormalUpdate =>
       LET change == ChangeAt(commits[ci], chi)
           idx == FindIndex(heap, currentLines, change.id)
           new == currentLines'[idx]
       IN
         /\ new \notin DOMAIN heap
         /\ new \in DOMAIN heap'
         /\ heap'[new].id = change.id
         /\ heap'[new].text = change.origText
         /\ \A r \in DOMAIN heap : heap'[r] = heap[r]
         /\ snapshots' = snapshots
         /\ \A t \in DOMAIN snapshots :
              /\ new \notin Range(snapshots[t])
              /\ currentLines[idx] \in Range(snapshots[t])
                   => heap'[currentLines[idx]].text = heap[currentLines[idx]].text
         /\ Len(currentLines') = Len(currentLines)
         /\ \A i \in 1..Len(currentLines) :
              i # idx => currentLines'[i] = currentLines[i]]_vars

\* An Update was undone on a line that two stored snapshots hold.
C2_Witness ==
  /\ \E r \in DOMAIN heap : origin[r] = "update" /\ r \in Range(currentLines)
  /\ \E t1, t2 \in DOMAIN snapshots :
       /\ t1 # t2
       /\ \E r \in Range(snapshots[t1]) \cap Range(snapshots[t2]) :
            /\ heap[r].id = "L1"
            /\ \E q \in Range(currentLines) :
                 origin[q] = "update" /\ heap[q].id = "L1" /\ heap[q].text # heap[r].text

(***************************************************************************)
(* C3. In a newest-first log whose only changes of a line X are an         *)
(* Insert(X, a) in the commit made at I and a Delete(X) in the commit made *)
(* at D > I, X not being a line of the current page: after the return      *)
(* every snapshot of a commit made at t, I <= t < D, holds a line with id  *)
(* X, text a and the author of the Insert's commit, and the snapshot of    *)
(* the commit made at D holds no line with id X.                           *)
(***************************************************************************)
InsertDeleteChain(x, kI, kD) ==
  /\ x \notin GivenIds
  /\ kD < kI
  /\ LET ops == OpsOn(x) IN
       \E jI \in 1..Len(commits[kI].changes), jD \in 1..Len(commits[kD].changes) :
         /\ OpAt(<<kI, jI>>).type = "insert"
         /\ OpAt(<<kD, jD>>).type = "delete"
         /\ ops = {<<kI, jI>>, <<kD, jD>>}

InsertTextOf(x, k) ==
  (CHOOSE c \in Range(commits[k].changes) : c.id = x /\ c.type = "insert").text

C3_InsertDeleteRestored ==
  (Done /\ NewestFirst) =>
    \A x \in Ids : \A kI, kD \in 1..Len(commits) :
      InsertDeleteChain(x, kI, kD) =>
        /\ \A k \in (kD + 1)..kI :
             \E r \in Range(snapshots[commits[k].created]) :
               /\ heap[r].id = x
               /\ heap[r].text = InsertTextOf(x, kI)
               /\ heap[r].userId = commits[kI].userId
        /\ ~HasId(snapshots[commits[kD].created], x)

\* A returned sweep over a log with Delete(L1), a commit in between and
\* Insert(L1), the line of the three snapshots having been a placeholder.
C3_Witness ==
  /\ Done
  /\ NewestFirst
  /\ Len(commits) = 3
  /\ InsertDeleteChain("L1", 3, 1)
  /\ \E r \in restored : origin[r] = "delete" /\ heap[r].text = "Mid"

(***************************************************************************)
(* C4. In a newest-first log whose only changes of a line X, each in a     *)
(* commit of its own, are Insert(X, a) at I, Update(X, a to b) at U and    *)
(* Delete(X) at D, I < U < D, X not being a line of the current page:      *)
(* after the return every snapshot of a commit made at t, I <= t < U,      *)
(* shows X with text a and every one with U <= t < D shows X with text b.  *)
(***************************************************************************)
InsertUpdateDeleteChain(x, kI, kU, kD) ==
  /\ x \notin GivenIds
  /\ kD < kU
  /\ kU < kI
  /\ LET ops == OpsOn(x) IN
       \E jI \in 1..Len(commits[kI].changes), jU \in 1..Len(commits[kU].changes),
          jD \in 1..Len(commits[kD].changes) :
         /\ OpAt(<<kI, jI>>).type = "insert"
         /\ OpAt(<<kU, jU>>).type = "update"
         /\ OpAt(<<kD, jD>>).type = "delete"
         /\ OpAt(<<kU, jU>>).origText = OpAt(<<kI, jI>>).text
         /\ ops = {<<kI, jI>>, <<kU, jU>>, <<kD, jD>>}

UpdateTextOf(x, k) ==
  (CHOOSE c \in Range(commits[k].changes) : c.id = x /\ c.type = "update").text

ShowsText(k, x, t) ==
  \E r \in Range(snapshots[commits[k].created]) :
    heap[r].id = x /\ heap[r].text = t

C4_InsertUpdateDeleteRestored ==
  (Done /\ NewestFirst) =>
    \A x \in Ids : \A kI, kU, kD \in 1..Len(commits) :
      InsertUpdateDeleteChain(x, kI, kU, kD) =>
        /\ \A k \in (kU + 1)..kI : ShowsText(k, x, InsertTextOf(x, kI))
        /\ \A k \in (kD + 1)..kU : ShowsText(k, x, UpdateTextOf(x, kU))

(***************************************************************************)
(* C5. The text of an object changes in place only if the object is a      *)
(* placeholder made by undoing a Delete: the text of an object the caller  *)
(* passed, or of one made by undoing an Update, never changes.             *)
(***************************************************************************)
C5_OnlyPlaceholdersMutated ==
  [][\A r \in DOMAIN heap :
       heap'[r].text # heap[r].text => origin[r] = "delete"]_vars

(***************************************************************************)
(* C6. For a log with pairwise distinct timestamps, in any order, the      *)
(* returned map has exactly one entry per commit, keyed by the commit's    *)
(* timestamp, a commit without changes included: its size is the number of *)
(* commits.                                                                *)
(***************************************************************************)
CommitTimes == {commits[k].created : k \in 1..Len(commits)}

C6_OneEntryPerCommit ==
  (Done /\ DistinctTimes) =>
    /\ DOMAIN snapshots = CommitTimes
    /\ Cardinality(DOMAIN snapshots) = Len(commits)

\* A returned sweep over three commits that are not in newest-first order,
\* one of them without changes.
C6_Witness ==
  /\ Done
  /\ DistinctTimes
  /\ Len(commits) = 3
  /\ ~NewestFirst
  /\ \E k \in 1..Len(commits) : commits[k].changes = <<>>
  /\ \E k \in 1..Len(commits) : commits[k].changes # <<>>

(***************************************************************************)
(* C7. Called with an empty log, makeSnapshots returns an empty map,       *)
(* whatever the current lines are.                                         *)
(***************************************************************************)
C7_EmptyLogEmptyMap ==
  (Done /\ commits = <<>>) => DOMAIN snapshots = {}

\* A return for an empty log and a page of two lines.
C7_Witness == Done /\ commits = <<>> /\ Len(given) = 2

(***************************************************************************)
(* C8. The snapshot of a commit is stored before any change of the commit  *)
(* is undone: it is the working sequence left by the undo of the commits   *)
(* handled before, and no later step of the sweep restructures it. So, in  *)
(* a newest-first log, a line the commit deletes (not a current line, not  *)
(* named by a newer commit) is absent from the commit's own snapshot, and  *)
(* a current line the commit inserts (not named by a newer commit) is      *)
(* present in it.                                                          *)
(***************************************************************************)
NamedBefore(k, x) ==
  \E kj \in OpsOn(x) : kj[1] < k

Has(k, type, x) ==
  \E c \in Range(commits[k].changes) : c.type = type /\ c.id = x

ScenarioC ==
  /\ given = <<CallerLine("L1", "Final")>>
  /\ commits = SortedLog(<< <<Upd("L1", "Final", "Mid")>>,
                            <<Del("L1")>>,
                            <<Ins("L1", "Mid")>> >>)

C9_ScenarioC ==
  (Done /\ ScenarioC) =>
    /\ heap[snapshots[3000][1]].text = "Final"
    /\ heap[snapshots[2000][1]].text = "Mid"
    /\ heap[snapshots[1000][1]].text = "Mid"
    /\ heap[snapshots[3000][1]].created = 1000
    /\ heap[snapshots[2000][1]].created = 1000

(***************************************************************************)
(* C10. The changes of one commit are undone from the last to the first:   *)
(* when the inner loop ends, the working sequence (ids and texts, in       *)
(* order) is the one that undoing the commit's changes from right to left  *)
(* yields from the state in which the commit's snapshot was stored.        *)
(***************************************************************************)
RECURSIVE UndoAll(_, _, _)
UndoAll(w, commit, ks) ==
  IF ks = <<>> THEN w
  ELSE UndoAll(UndoOf(w, commit, commit.changes[Head(ks)]), commit, Tail(ks))

RightToLeft(n) == [i \in 1..n |-> n - i + 1]

Shown(h, arr) == [i \in 1..Len(arr) |-> <<h[arr[i]].id, h[arr[i]].text>>]

C10_UndoneRightToLeft ==
  (pc = "loop" /\ ci <= Len(commits) /\ chi = Len(commits[ci].changes) + 1) =>
    LET w == UndoAll(atEmit, commits[ci], RightToLeft(Len(commits[ci].changes)))
    IN Shown(w.heap, w.cur) = Shown(heap, currentLines)

(***************************************************************************)
(* C11. After an Insert of id X is undone, the working sequence holds no   *)
(* line with id X, whether the line was a placeholder the Insert has just  *)
(* corrected or a normal line. (A line whose dummy text does not come     *)
(* from undoing a Delete is neither, and is left out.)                     *)
(***************************************************************************)
UndoesInsert ==
  /\ AtChange
  /\ ChangeAt(commits[ci], chi).type = "insert"
  /\ \A r \in Range(currentLines) :
       (heap[r].id = ChangeAt(commits[ci], chi).id /\ heap[r].text = Dummy)
         => origin[r] = "delete"
  /\ chi' = chi + 1

C11_InsertRemovesLine ==
  [][UndoesInsert =>
       \A i \in 1..Len(currentLines') :
         heap'[currentLines'[i]].id # ChangeAt(commits[ci], chi).id]_vars

(***************************************************************************)
(* C12. Undoing an Update whose line is a placeholder (made by undoing a   *)
(* Delete and still carrying the dummy text) sets, in place, the           *)
(* placeholder's text to the Update's previous text (origText), its        *)
(* updated time to the commit's timestamp and its author to the commit's   *)
(* author, and leaves its created time as it was.                          *)
(***************************************************************************)
UndoesPlaceholderUpdate ==
  /\ AtChange
  /\ ChangeAt(commits[ci], chi).type = "update"
  /\ FindIndex(heap, currentLines, ChangeAt(commits[ci], chi).id) # 0
  /\ heap[currentLines[FindIndex(heap, currentLines,
                                 ChangeAt(commits[ci], chi).id)]].text = Dummy
  /\ origin[currentLines[FindIndex(heap, currentLines,
                                   ChangeAt(commits[ci], chi).id)]] = "delete"
  /\ chi' = chi + 1

C12_PlaceholderGetsPreviousText ==
  [][UndoesPlaceholderUpdate =>
       LET change == ChangeAt(commits[ci], chi)
           p == currentLines[FindIndex(heap, currentLines, change.id)]
       IN
         /\ currentLines' = currentLines
         /\ heap'[p].text = change.origText
         /\ heap'[p].updated = commits[ci].created
         /\ heap'[p].userId = commits[ci].userId
         /\ heap'[p].created = heap[p].created]_vars

(***************************************************************************)
(* C13. In a newest-first log whose changes of a line X, not a line of the *)
(* current page, are one Delete(X), one Insert(X) in an older commit and,  *)
(* between the two, Updates of X only: after the return every placeholder  *)
(* made for X has the timestamp of the Insert's commit as its created      *)
(* time.                                                                   *)
(***************************************************************************)
DeleteInsertChain(x, kI, kD) ==
  /\ x \notin GivenIds
  /\ kD < kI
  /\ LET ops == OpsOn(x) IN
       /\ \E jI \in 1..Len(commits[kI].changes) :
            /\ OpAt(<<kI, jI>>).type = "insert"
            /\ OpAt(<<kI, jI>>).id = x
            /\ \A kj \in ops : OpAt(kj).type = "insert" => kj = <<kI, jI>>
       /\ \E jD \in 1..Len(commits[kD].changes) :
            /\ OpAt(<<kD, jD>>).type = "delete"
            /\ OpAt(<<kD, jD>>).id = x
            /\ \A kj \in ops : OpAt(kj).type = "delete" => kj = <<kD, jD>>
       /\ \A kj \in ops :
            OpAt(kj).type = "update" => (kD < kj[1] /\ kj[1] < kI)

C13_PlaceholderCreatedAtInsert ==
  (Done /\ NewestFirst) =>
    \A x \in Ids : \A kI, kD \in 1..Len(commits) :
      DeleteInsertChain(x, kI, kD) =>
        \A r \in DOMAIN heap :
          (origin[r] = "delete" /\ heap[r].id = x)
            => heap[r].created = commits[kI].created

(***************************************************************************)
(* C14. Undoing Delete(X) appends exactly one new object, a placeholder    *)
(* with id X and the dummy text, at the end of the working sequence: the   *)
(* lines already there keep their objects and their order, no object that  *)
(* existed changes, and no stored snapshot changes.                        *)
(***************************************************************************)
UndoesDelete ==
  /\ AtChange
  /\ ChangeAt(commits[ci], chi).type = "delete"
  /\ chi' = chi + 1

C14_DeleteAppendsPlaceholder ==
  [][UndoesDelete =>
       LET new == currentLines'[Len(currentLines')] IN
         /\ Len(currentLines') = Len(currentLines) + 1
         /\ \A i \in 1..Len(currentLines) : currentLines'[i] = currentLines[i]
         /\ new \notin DOMAIN heap
         /\ DOMAIN heap' = DOMAIN heap \cup {new}
         /\ heap'[new].id = ChangeAt(commits[ci], chi).id
         /\ heap'[new].text = Dummy
         /\ \A r \in DOMAIN heap : heap'[r] = heap[r]
         /\ snapshots' = snapshots]_vars

\* The first change of a commit, a Delete, has just been undone on a working
\* sequence that held a line: the commit's snapshot is one line shorter.
C14_Witness ==
  /\ pc = "loop"
  /\ ci <= Len(commits)
  /\ chi = 2
  /\ commits[ci].changes[1].type = "delete"
  /\ Len(atEmit.cur) >= 1
  /\ snapshots[commits[ci].created] = atEmit.cur
  /\ currentLines = Append(atEmit.cur, currentLines[Len(currentLines)])
  /\ origin[currentLines[Len(currentLines)]] = "delete"
  /\ heap[currentLines[Len(currentLines)]].text = Dummy

(***************************************************************************)
(* C15. In a newest-first log with a Delete(X) that no Insert or Update of *)
(* X precedes (none in an older commit, none earlier in the Delete's own   *)
(* commit), makeSnapshots returns, and every snapshot of a commit older    *)
(* than the Delete's holds a line with id X and the dummy text.            *)
(***************************************************************************)
\* The change at place kj was applied after the one at <<kD, jD>>.
AppliedAfter(kj, kD, jD) ==
  \/ kj[1] < kD
  \/ kj[1] = kD /\ kj[2] > jD

UnresolvedDelete(x, kD, jD) ==
  /\ OpAt(<<kD, jD>>).type = "delete"
  /\ OpAt(<<kD, jD>>).id = x
  /\ \A kj \in OpsOn(x) :
       OpAt(kj).type \in {"insert", "update"} => AppliedAfter(kj, kD, jD)

C15_UnresolvedPlaceholderKept ==
  (Done /\ NewestFirst) =>
    \A x \in Ids : \A kD \in 1..Len(commits) :
      \A jD \in 1..Len(commits[kD].changes) :
        UnresolvedDelete(x, kD, jD) =>
          \A k \in (kD + 1)..Len(commits) :
            \E r \in Range(snapshots[commits[k].created]) :
              heap[r].id = x /\ heap[r].text = Dummy

(***************************************************************************)
(* C16. Undoing an Update whose line id is absent from the working         *)
(* sequence changes nothing, and the sweep goes on with the next change.   *)
(* Undoing a Delete whose line id is absent is not a no-op: it appends the *)
(* placeholder, and the sweep goes on as well.                             *)
(***************************************************************************)
AbsentAt(type) ==
  /\ AtChange
  /\ ChangeAt(commits[ci], chi).type = type
  /\ FindIndex(heap, currentLines, ChangeAt(commits[ci], chi).id) = 0

GoesOn ==
  /\ chi' = chi + 1
  /\ ci' = ci
  /\ pc' = "loop"
  /\ commits' = commits

C16_AbsentUpdateIsNoOp ==
  /\ [][AbsentAt("update") =>
          /\ currentLines' = currentLines
          /\ heap' = heap
          /\ snapshots' = snapshots
          /\ GoesOn]_vars
  /\ [][AbsentAt("delete") =>
          /\ Len(currentLines') = Len(currentLines) + 1
          /\ heap'[currentLines'[Len(currentLines')]].id
               = ChangeAt(commits[ci], chi).id
          /\ GoesOn]_vars

\* The first change of a commit, an Update of a line that the working
\* sequence did not hold, has been undone, and another change follows.
C16_Witness ==
  /\ pc = "loop"
  /\ ci <= Len(commits)
  /\ chi = 2
  /\ chi <= Len(commits[ci].changes)
  /\ commits[ci].changes[1].type = "update"
  /\ FindIndex(atEmit.heap, atEmit.cur, commits[ci].changes[1].id) = 0
  /\ Len(atEmit.cur) >= 1
  /\ currentLines = atEmit.cur
  /\ heap = atEmit.heap

\* C16 as first stated: undoing an Update or a Delete whose line id is
\* absent from the working sequence leaves the working sequence unchanged,
\* and the sweep goes on.
C16_AbsentIsNoOp ==
  [][(AbsentAt("update") \/ AbsentAt("delete")) =>
       /\ currentLines' = currentLines
       /\ heap' = heap
       /\ GoesOn]_vars

(***************************************************************************)
(* C17. The ids of the caller's lines being pairwise distinct, the ids of  *)
(* every returned snapshot are pairwise distinct, for every log.           *)
(***************************************************************************)
DistinctIds(arr) ==
  \A i, j \in 1..Len(arr) : heap[arr[i]].id = heap[arr[j]].id => i = j

C17_SnapshotIdsUnique ==
  (Done /\ \A i, j \in 1..Len(given) : given[i].id = given[j].id => i = j) =>
    \A t \in DOMAIN snapshots : DistinctIds(snapshots[t])

(***************************************************************************)
(* C18. Given a log with a commit that has no timestamp, makeSnapshots     *)
(* fails: it never returns a map.                                          *)
(***************************************************************************)
HasUntimedCommit == \E k \in 1..Len(commits) : commits[k].created = Undefined

C18_UntimedCommitFails == HasUntimedCommit => ~Done

(***************************************************************************)
(* C19. For a log whose commits all have a timestamp, the range the viewer *)
(* derives from the returned map is strictly increasing and holds each     *)
(* distinct commit timestamp exactly once.                                 *)
(***************************************************************************)
Viewing == pc = "view"

C19_RangeStrictlyIncreasing ==
  (Viewing /\ ~HasUntimedCommit) =>
    /\ \A i, j \in 1..Len(range) : i < j => range[i] < range[j]
    /\ {range[i] : i \in 1..Len(range)} = CommitTimes
    /\ Len(range) = Cardinality(CommitTimes)

\* The viewer holds the range of a log of three commits, two of them made
\* at the same time, that is neither newest-first nor oldest-first.
C19_Witness ==
  /\ Viewing
  /\ ~HasUntimedCommit
  /\ Len(commits) = 3
  /\ Len(range) = 2
  /\ commits[1].created < commits[2].created
  /\ commits[2].created > commits[3].created

(***************************************************************************)
(* C20. getSnapshot(T) returns the texts of the lines of the snapshot      *)
(* stored under T, in the order of the snapshot, and the empty sequence    *)
(* when no commit was made at T.                                           *)
(***************************************************************************)
C20_GetSnapshotTexts ==
  shown.asked =>
    IF shown.time \in CommitTimes
      THEN /\ Len(shown.texts) = Len(snapshots[shown.time])
           /\ \A i \in 1..Len(shown.texts) :
                shown.texts[i] = heap[snapshots[shown.time][i]].text
      ELSE shown.texts = <<>>

\* getSnapshot has returned the two texts of a snapshot of two lines, for a
\* log that has no commit at one of the other timestamps.
C20_Witness ==
  /\ shown.asked
  /\ shown.time \in CommitTimes
  /\ Len(shown.texts) = 2
  /\ shown.texts[1] # shown.texts[2]
  /\ \E t \in Times : t \notin CommitTimes

(***************************************************************************)
(* C27. Undoing one change of line id X leaves every line of the working   *)
(* sequence whose id is not X the same object, in the same relative order, *)
(* and changes no field of any object with another id. So, timestamps      *)
(* being distinct, the snapshots of two consecutive commits hold the same  *)
(* objects, in the same order, for every id the first of the two commits   *)
(* does not name.                                                          *)
(***************************************************************************)
OthersOf(h, arr, x) == SelectSeq(arr, LAMBDA r : h[r].id # x)

WithId(h, arr, x) == SelectSeq(arr, LAMBDA r : h[r].id = x)

Names(k, x) == \E c \in Range(commits[k].changes) : c.id = x

C27_OtherLinesUntouched ==
  /\ [][AtChange =>
          LET x == ChangeAt(commits[ci], chi).id IN
            /\ OthersOf(heap', currentLines', x) = OthersOf(heap, currentLines, x)
            /\ \A r \in DOMAIN heap : heap[r].id # x => heap'[r] = heap[r]]_vars
  /\ []((Done /\ DistinctTimes) =>
          \A k \in 1..(Len(commits) - 1) : \A y \in Ids :
            ~Names(k, y) =>
              WithId(heap, snapshots[commits[k].created], y)
                = WithId(heap, snapshots[commits[k + 1].created], y))

\* A returned sweep whose first commit names L1 and not L2: the first two
\* snapshots share the object of L2 and differ on L1.
C27_Witness ==
  /\ Done
  /\ DistinctTimes
  /\ Len(commits) >= 2
  /\ Names(1, "L1")
  /\ ~Names(1, "L2")
  /\ WithId(heap, snapshots[commits[1].created], "L2") # <<>>
  /\ WithId(heap, snapshots[commits[1].created], "L1")
       # WithId(heap, snapshots[commits[2].created], "L1")

(***************************************************************************)
(* C28. A snapshot, once stored, keeps its sequence of lines for the rest  *)
(* of the sweep: the entry of a timestamp changes only when a commit with  *)
(* that timestamp stores its snapshot, no entry is removed, and the        *)
(* caller's array keeps its length and order. Only the working sequence is *)
(* restructured.                                                           *)
(***************************************************************************)
Stores(t) ==
  /\ pc = "loop"
  /\ ci <= Len(commits)
  /\ chi = 0
  /\ commits[ci].created = t

C28_StoredSequencesFixed ==
  [][/\ lines' = lines
     /\ \A t \in DOMAIN snapshots :
          /\ t \in DOMAIN snapshots'
          /\ snapshots'[t] # snapshots[t] => Stores(t)
     /\ \A k \in 1..Len(emitted) : emitted'[k] = emitted[k]]_vars

\* A returned sweep over two lines and three commits that restructured the
\* working sequence: the first snapshot is still the caller's sequence and
\* another one has another length.
C28_Witness ==
  /\ Done
  /\ Len(lines) = 2
  /\ Cardinality(DOMAIN snapshots) = 3
  /\ snapshots[commits[1].created] = lines
  /\ Len(currentLines) # Len(lines)
  /\ \E t \in DOMAIN snapshots : Len(snapshots[t]) # Len(lines)

(***************************************************************************)
(* C29. When undoing Insert(X) corrects a placeholder, the line with id X  *)
(* (the first one with that id) of every snapshot stored so far that holds *)
(* X gets the timestamp of the Insert's commit as its created time, lines  *)
(* that are not placeholders included; no line with another id has its     *)
(* created time changed.                                                   *)
(***************************************************************************)
CorrectsPlaceholder ==
  /\ AtChange
  /\ ChangeAt(commits[ci], chi).type = "insert"
  /\ InsertRestores(Working, ChangeAt(commits[ci], chi).id)

C29_CreatedSetInStoredSnapshots ==
  [][CorrectsPlaceholder =>
       LET x == ChangeAt(commits[ci], chi).id IN
         /\ \A t \in DOMAIN snapshots :
              FindIndex(heap, snapshots[t], x) # 0 =>
                heap'[snapshots[t][FindIndex(heap, snapshots[t], x)]].created
                  = commits[ci].created
         /\ \A r \in DOMAIN heap :
              heap[r].id # x => heap'[r].created = heap[r].created]_vars

\* A placeholder has been corrected, and a line that is not a placeholder
\* (the caller's, or one made by undoing an Update) carries the timestamp
\* of a commit as its created time.
C29_Witness ==
  /\ \E p \in restored : origin[p] = "delete"
  /\ \E r \in DOMAIN heap :
       /\ origin[r] \in {"caller", "update"}
       /\ heap[r].text # Dummy
       /\ r \notin restored
       /\ heap[r].created \in Times
       /\ \E t \in DOMAIN snapshots : r \in Range(snapshots[t])

(***************************************************************************)
(* C30. The returned map holds one entry per timestamp of the log, and the *)
(* value of a timestamp that several commits carry is the snapshot stored  *)
(* for the one of them that comes last in the list.                        *)
(***************************************************************************)
LastAt(t) ==
  CHOOSE k \in 1..Len(commits) :
    /\ commits[k].created = t
    /\ \A j \in (k + 1)..Len(commits) : commits[j].created # t

C30_LaterCommitWins ==
  Done =>
    /\ DOMAIN snapshots = CommitTimes
    /\ \A t \in CommitTimes : snapshots[t] = emitted[LastAt(t)]

\* A returned sweep over a log in which two commits carry the same
\* timestamp and had different snapshots stored.
C30_Witness ==
  /\ Done
  /\ \E i, j \in 1..Len(commits) :
       /\ i < j
       /\ commits[i].created = commits[j].created
       /\ LastAt(commits[i].created) = j
       /\ emitted[i] # emitted[j]
       /\ snapshots[commits[i].created] = emitted[j]

(***************************************************************************)
(* C21. (ViewerSpec) When an invocation of the callback resolves to        *)
(* undefined, the hook's result stays exactly what it was, the previous    *)
(* value or the initial one, and the only thing the invocation does is to  *)
(* end the run: it sets the state to "resolved".                           *)
(***************************************************************************)
SettlesTo(o) ==
  \E i \in DOMAIN runs :
    /\ runs[i].outcome = "none"
    /\ i \in DOMAIN runs'
    /\ runs'[i].outcome = o

C21_UndefinedKeepsResult ==
  [][SettlesTo("undefined") =>
       /\ result' = result
       /\ state' = "resolved"
       /\ effectDue' = effectDue
       /\ max' = max
       /\ index' = index
       /\ closed' = closed]_vars

\* An invocation started after the one whose value the hook holds has
\* resolved to undefined, and the hook still holds that value.
C21_Witness ==
  /\ state = "resolved"
  /\ result.ok
  /\ result.run # 0
  /\ result.len > 0
  /\ \E i \in DOMAIN runs :
       /\ i > result.run
       /\ runs[i].outcome = "undefined"
       /\ runs[i].timer = "fired"

(***************************************************************************)
(* C22. (ViewerSpec) The state becomes "pending" only through the timer of *)
(* an invocation that is still unsettled when its delay elapses; an        *)
(* invocation that settles, to a value, to undefined or to an error, has   *)
(* its timer cancelled if it has not fired, and its timer never fires      *)
(* afterwards.                                                             *)
(***************************************************************************)
Fires(i) ==
  /\ runs[i].timer = "armed"
  /\ i \in DOMAIN runs'
  /\ runs'[i].timer = "fired"

C22_PendingOnlyWhileUnsettled ==
  /\ [][\A i \in DOMAIN runs :
          Fires(i) => (runs[i].phase = "awaiting" /\ state' = "pending")]_vars
  /\ [][(state' = "pending" /\ state # "pending") =>
          \E i \in DOMAIN runs : Fires(i)]_vars
  /\ [][\A i \in DOMAIN runs :
          runs[i].phase = "settled" => runs'[i].timer = runs[i].timer]_vars
  /\ [](\A i \in DOMAIN runs :
          runs[i].phase = "settled" => runs[i].timer # "armed")

\* One invocation rejected before its delay and had its timer cancelled;
\* another one settled after its timer had fired.
C22_Witness ==
  \E i, j \in DOMAIN runs :
    /\ runs[i].outcome = "error"
    /\ runs[i].timer = "cleared"
    /\ runs[j].phase = "settled"
    /\ runs[j].timer = "fired"
    /\ state = "resolved"

(***************************************************************************)
(* C26. (ViewerSpec) Every delivery of a result makes the slider's effect  *)
(* due; when the effect runs on a result delivered in state resolved, it   *)
(* sets the slider's maximum and its index to max(0, range.length - 1).    *)
(* A slider input changes the index only: the maximum, the result and the  *)
(* state stay.                                                             *)
(***************************************************************************)
EffectRuns == effectDue /\ ~effectDue'

C26_SliderResetOnResult ==
  /\ [][result' # result => effectDue']_vars
  /\ [][(EffectRuns /\ result.ok) =>
          /\ max' = Max0(result.len - 1)
          /\ index' = Max0(result.len - 1)
          /\ result' = result]_vars
  /\ [][(index' # index /\ ~EffectRuns) =>
          /\ max' = max
          /\ result' = result
          /\ state' = state
          /\ runs' = runs]_vars

\* A range of MaxRange timestamps was delivered, the effect has put
\* the slider on the newest position, and an input has moved the index.
C26_Witness ==
  /\ ~effectDue
  /\ result.ok
  /\ result.len = MaxRange
  /\ max = MaxRange - 1
  /\ index = 0
  /\ Reported = "resolved"

(***************************************************************************)
(* C23. (ConvertSpec) convert ignores every change that is not an insert,  *)
(* an update or a delete, and the range it returns lists the distinct      *)
(* timestamps of the commits that have at least one insert, update or      *)
(* delete, in ascending numeric order, whatever the timestamps are.        *)
(***************************************************************************)
Returned == convPc = "returned"

LineChange(change) == change.kind \in {"_insert", "_update", "_delete"}

LineChangesOf(k) ==
  {j \in 1..Len(convCommits[k].changes) :
     LineChange(convCommits[k].changes[j])}

TimesOfLineChanges ==
  {convCommits[k].created :
     k \in {c \in 1..Len(convCommits) : LineChangesOf(c) # {}}}

C23_RangeAscendingNumeric ==
  Returned =>
    /\ \A i \in 1..Len(changes) :
         changes[i].type \in {"insert", "update", "delete"}
    /\ Range(convRange) = TimesOfLineChanges
    /\ \A i, j \in 1..Len(convRange) : i < j => convRange[i] < convRange[j]

(***************************************************************************)
(* C24. (ConvertSpec) The reduce step of an insert adds exactly one line   *)
(* history, holding the insert's only snapshot: at the end of the list     *)
(* when the anchor is "_end" or is the id of no line of the list, and      *)
(* immediately before the first line whose id is the anchor otherwise. The *)
(* lines that were in the list keep their content and their relative       *)
(* order.                                                                  *)
(***************************************************************************)
ReducesInsert ==
  /\ convPc = "reduce"
  /\ pos <= Len(changes)
  /\ changes[pos].type = "insert"
  /\ pos' = pos + 1

AnchorAt(change) ==
  {i \in 1..Len(history) : history[i].id = change.parentId}

C24_InsertAddsOneLine ==
  [][ReducesInsert =>
       LET change == changes[pos]
           n == Len(history)
       IN /\ Len(history') = n + 1
          /\ \E p \in 1..(n + 1) :
               /\ history'[p].id = change.id
               /\ DOMAIN history'[p].snapshots = {change.created}
               /\ history'[p].snapshots[change.created].text = change.text
               /\ \A i \in 1..(p - 1) : history'[i] = history[i]
               /\ \A i \in p..n : history'[i + 1] = history[i]
               /\ IF change.parentId = EndAnchor \/ AnchorAt(change) = {}
                    THEN p = n + 1
                    ELSE /\ p \in AnchorAt(change)
                         /\ \A i \in AnchorAt(change) : p <= i]_vars

\* L3 was inserted before L2, the second of two lines, and convert returned.
C24_Witness ==
  /\ Returned
  /\ Len(history) = 3
  /\ history[1].id = "L1"
  /\ history[2].id = "L3"
  /\ history[3].id = "L2"

(***************************************************************************)
(* C25. (ConvertSpec) For a time T of the commit range, getSnapshot(T) of  *)
(* the commit-history viewer returns, in the order of the history, for     *)
(* each line the text of the latest change written into its history with a *)
(* timestamp <= T; a line with no such change, or whose latest such change *)
(* is a delete, is left out. For a T outside the commit range it returns   *)
(* the texts of the page snapshot stored under T, and the empty list when  *)
(* there is none.                                                          *)
(***************************************************************************)
\* The positions in the record of a line of its changes up to the time.
UpTo(log, time) == {j \in 1..Len(log) : log[j].created <= time}

\* The latest of them: the greatest timestamp, and among equal timestamps
\* the one written last.
LatestUpTo(log, time) ==
  CHOOSE j \in UpTo(log, time) :
    \A o \in UpTo(log, time) :
      \/ log[o].created < log[j].created
      \/ (log[o].created = log[j].created /\ o <= j)

Visible(log, time) ==
  /\ UpTo(log, time) # {}
  /\ log[LatestUpTo(log, time)].type # "delete"

RECURSIVE ExpectedTexts(_, _)
ExpectedTexts(logs, time) ==
  IF logs = <<>> THEN <<>>
  ELSE (IF Visible(Head(logs), time)
          THEN <<Head(logs)[LatestUpTo(Head(logs), time)].text>>
          ELSE <<>>)
         \o ExpectedTexts(Tail(logs), time)

C25_GetSnapshotLatestText ==
  got.asked =>
    IF got.time \in Range(convRange)
      THEN got.texts = ExpectedTexts(recorded, got.time)
      ELSE got.texts = (IF got.time \in DOMAIN PageSnapshots
                          THEN PageSnapshots[got.time] ELSE <<>>)

\* The time asked for is in the commit range; one line has no change at it
\* but two earlier ones, and the text of the later of the two is shown.
C25_Witness ==
  /\ got.asked
  /\ got.time \in Range(convRange)
  /\ got.texts # <<>>
  /\ \E k \in 1..Len(history) :
       /\ got.time \notin DOMAIN history[k].snapshots
       /\ Cardinality({t \in DOMAIN history[k].snapshots : t < got.time}) >= 2
       /\ Visible(recorded[k], got.time)

(***************************************************************************)
(* C31. (ViewerSpec) When the callback rejects, the hook reports the state *)
(* "rejected" and holds the thrown value of that invocation. It goes on    *)
(* reporting "rejected", with the same value, while later invocations      *)
(* resolve to undefined, and stops only in a step in which an invocation   *)
(* resolves to a value.                                                    *)
(***************************************************************************)
C31_RejectedUntilValue ==
  /\ [][\A i \in DOMAIN runs :
          (runs[i].outcome = "none" /\ runs'[i].outcome = "error") =>
            /\ Reported' = "rejected"
            /\ result' = [ok |-> FALSE, run |-> i, len |-> 0]]_vars
  /\ [][(Reported = "rejected" /\ SettlesTo("undefined")) =>
          /\ Reported' = "rejected"
          /\ result' = result]_vars
  /\ [][(Reported = "rejected" /\ Reported' # "rejected") =>
          SettlesTo("value")]_vars

\* An invocation rejected, a later one resolved to undefined after its
\* timer had fired, and the hook still reports the rejection.
C31_Witness ==
  /\ Reported = "rejected"
  /\ ~result.ok
  /\ state = "resolved"
  /\ \E i \in DOMAIN runs :
       /\ i > result.run
       /\ runs[i].outcome = "undefined"
       /\ runs[i].timer = "fired"

(***************************************************************************)
(* C33. (ViewerSpec) When invocations overlap, the result the hook holds   *)
(* once all of them have settled is the one delivered by the invocation    *)
(* that was started last among those that delivered a result, in whatever  *)
(* order they settled.                                                     *)
(***************************************************************************)
AllSettled == \A i \in DOMAIN runs : runs[i].phase = "settled"

Delivered(i) == runs[i].outcome \in {"value", "error"}

C33_LastStartedWins ==
  AllSettled =>
    \A j \in DOMAIN runs :
      (Delivered(j) /\ \A k \in DOMAIN runs : k > j => ~Delivered(k)) =>
        result.run = j

(***************************************************************************)
(* C36. (ViewerSpec) In every state the viewer renders with a range that   *)
(* is not empty and a state other than "rejected", the slider's index is a *)
(* position of the range the hook holds: 0 <= index <= range.length - 1.   *)
(***************************************************************************)
C36_IndexInRange ==
  (Reported # "rejected" /\ result.len > 0) =>
    (0 <= index /\ index <= result.len - 1)

(***************************************************************************)
(* C34. (ViewerSpec) The viewer starts closed and stays so until the       *)
(* controller is called. After a call the closed flag is false if the call *)
(* was open, true if it was close, and the negation of the value the call  *)
(* met if it was toggle; a toggle that follows a toggle gives back the     *)
(* value the first of the two met.                                         *)
(***************************************************************************)
SecondToggle ==
  /\ called.name = "toggle"
  /\ called'.name = "toggle"
  /\ called'.before = closed
  /\ called' # called

C34_ControllerSetsClosed ==
  /\ [](called.name = "none" => closed)
  /\ [](called.name = "open" => ~closed)
  /\ [](called.name = "close" => closed)
  /\ [](called.name = "toggle" => closed = ~called.before)
  /\ [][SecondToggle => closed' = called.before]_vars

\* The viewer was open with an invocation under way when toggle closed it.
C34_Witness ==
  /\ called = [name |-> "toggle", before |-> FALSE]
  /\ closed
  /\ \E i \in DOMAIN runs :
       ~runs[i].closedAtStart /\ runs[i].phase = "awaiting"

(***************************************************************************)
(* C32. (ViewerLiveSpec) In a behaviour in which every invocation settles  *)
(* and from some point on no invocation is started, the hook from some     *)
(* point on always reports "resolved" or "rejected": it never reports      *)
(* "pending" again.                                                        *)
(***************************************************************************)
NoneStarted == Len(runs') = Len(runs)

C32_EventuallySettledForGood ==
  <>[][NoneStarted]_vars => <>[](Reported \in {"resolved", "rejected"})

\* Three invocations or more have all settled after their timers had fired,
\* and the hook reports a rejection.
C32_Witness ==
  /\ AllSettled
  /\ Len(runs) >= 3
  /\ \A i \in DOMAIN runs : runs[i].timer = "fired"
  /\ Reported = "rejected"

(***************************************************************************)
(* C35. (LoadSpec) An invocation of the load callback made while the       *)
(* viewer is closed, or while the layout is not a page, requests neither   *)
(* the page nor the commits and returns undefined, and the step that       *)
(* takes this outcome over leaves the result the hook holds as it is. An   *)
(* invocation whose page request fails requests no commits, builds no      *)
(* snapshots and ends in an error.                                         *)
(***************************************************************************)
C35_NoRequestWhenClosed ==
  /\ [](\A i \in DOMAIN load :
          (runs[i].closedAtStart \/ load[i].layoutSeen # "page") =>
            /\ ~load[i].pageRequested
            /\ ~load[i].commitsRequested
            /\ ~load[i].built
            /\ load[i].outcome = "undefined")
  /\ [][\A i \in DOMAIN load :
          (load[i].outcome = "undefined" /\ runs[i].outcome = "none"
             /\ runs'[i].outcome # "none") =>
            /\ runs'[i].outcome = "undefined"
            /\ result' = result]_vars
  /\ [](\A i \in DOMAIN load :
          load[i].page = "failed" =>
            /\ ~load[i].commitsRequested
            /\ ~load[i].built
            /\ load[i].outcome = "error")

\* The hook holds a range loaded by one invocation; a later invocation, made
\* while the viewer was closed, has returned undefined and settled; in yet
\* another invocation the page request has failed.
C35_Witness ==
  /\ result.ok
  /\ result.len > 0
  /\ result.run \in DOMAIN load
  /\ load[result.run].built
  /\ \E j \in DOMAIN load :
       /\ j > result.run
       /\ runs[j].closedAtStart
       /\ load[j].outcome = "undefined"
       /\ runs[j].phase = "settled"
  /\ \E k \in DOMAIN load : load[k].page = "failed"

====
